---- MODULE Spec2Model ----
(***************************************************************************)
(* Model of pkg/udf/map_udf.go: MapUDFProcessor.Start (the forwarder       *)
(* lifecycle manager), the conditional forwarder closure built for each    *)
(* input partition (the output router) and GetPartitionedBufferIdx (the    *)
(* round-robin partition counter).                                         *)
(*                                                                         *)
(* Two state machines share the module.  Spec / FairSpec run Start: the    *)
(* main goroutine, one worker goroutine and one observer goroutine per     *)
(* input partition, the forwarders and the parent context.  RouteSpec      *)
(* runs the routers of the input partitions against a topology, and        *)
(* ShuffleSpec runs them against the topologies with a keyed edge.         *)
(***************************************************************************)
EXTENDS Integers, Sequences, FiniteSets, TLC

\* ------------------------------------------------------------------ bounds
\* number of input partitions (len(fromBuffer))
NumPartitions == 2
\* number of from-vertices (keys of processorManagers)
NumFromVertices == 2
\* number of to-vertices (keys of wmStores and of publishWatermark)
NumToVertices == 2

Partitions == 0 .. (NumPartitions - 1)
FromVertices == 1 .. NumFromVertices
ToVertices == 1 .. NumToVertices

\* ------------------------------------------------------------------ state
VARIABLES
    ISBSvcType,          \* u.ISBSvcType: "redis", "jetstream" or anything else
    WatermarkDisabled,   \* u.VertexInstance.Vertex.Spec.Watermark.Disabled
    pc,                  \* position of the goroutine running Start
    retval,              \* what Start returned: "none" (not yet), "nil", "err"
    ctxDone,             \* ctx.Done() is closed (parent cancelled, or cancel() ran)
    parentCancelled,     \* the caller's context was cancelled (external signal)
    natsClientPool,      \* "none", "open", "closed"
    readers,             \* len(readers)
    processorManagers,   \* FromVertices -> "none" | "open" | "closed"
    publishWatermark,    \* ToVertices -> "none" | "open" | "closed" | "failed"
    publisherKind,       \* "none", "noop", "jetstream"
    wmStores,            \* ToVertices -> "none" | "open" | "closed" | "failed"
    enableMapUdfStream,  \* the parsed streaming flag
    handlerConn,         \* "none", "created", "ready", "closed"
    connCloses,          \* number of CloseConn calls
    metricsServer,       \* "none", "started", "shutdown"
    index,               \* loop variable of the range over fromBuffer
    finalWg,             \* counter of finalWg
    worker,              \* Partitions -> position of the partition's goroutine
    observer,            \* Partitions -> position of the nested goroutine
    forwarder,           \* Partitions -> "none" | "built" | "running" | "stopped"
    stopCalls,           \* Partitions -> number of forwarder.Stop() calls received
    stopped,             \* Partitions -> the forwarder's stopped channel fired
    ToEdges,             \* u.VertexInstance.Vertex.Spec.ToEdges
    messagePerPartitionMap, \* Partitions -> the map of the partition's counter closure
    calls,               \* Partitions -> calls of the counter made per to-vertex (history)
    routed,              \* number of records routed so far (history)
    lastCall,            \* the last routing call: partition, keys, tags, result
    remembered           \* one earlier shuffled call: partition, keys, result (history)

lifecycleVars ==
    << ISBSvcType, WatermarkDisabled, pc, retval, ctxDone, parentCancelled,
       natsClientPool, readers, processorManagers, publishWatermark,
       publisherKind, wmStores, enableMapUdfStream, handlerConn, connCloses,
       metricsServer, index, finalWg, worker, observer, forwarder, stopCalls,
       stopped >>

routeVars == << ToEdges, messagePerPartitionMap, calls, routed, lastCall,
               remembered >>

vars == << lifecycleVars, routeVars >>

ISBSvcTypes == {"redis", "jetstream", "unknown"}

\* ------------------------------------------------------------------ Start
StartInit ==
    /\ pc = "newClientPool"
    /\ retval = "none"
    /\ ctxDone = FALSE
    /\ parentCancelled = FALSE
    /\ natsClientPool = "none"
    /\ readers = 0
    /\ processorManagers = [m \in FromVertices |-> "none"]
    /\ publishWatermark = [p \in ToVertices |-> "none"]
    /\ publisherKind = "none"
    /\ wmStores = [s \in ToVertices |-> "none"]
    /\ enableMapUdfStream = FALSE
    /\ handlerConn = "none"
    /\ connCloses = 0
    /\ metricsServer = "none"
    /\ index = 0
    /\ finalWg = 0
    /\ worker = [i \in Partitions |-> "none"]
    /\ observer = [i \in Partitions |-> "none"]
    /\ forwarder = [i \in Partitions |-> "none"]
    /\ stopCalls = [i \in Partitions |-> 0]
    /\ stopped = [i \in Partitions |-> FALSE]

\* The deferred calls of Start, run in reverse order of registration on every
\* return: metrics shutdown (268), CloseConn (137-142 / 155-160),
\* natsClientPool.CloseAll (61), cancel (55).
RunDefers ==
    /\ metricsServer' = IF metricsServer = "started" THEN "shutdown" ELSE metricsServer
    /\ handlerConn' = IF handlerConn = "ready" THEN "closed" ELSE handlerConn
    /\ connCloses' = IF handlerConn = "ready" THEN connCloses + 1 ELSE connCloses
    /\ natsClientPool' = IF natsClientPool = "open" THEN "closed" ELSE natsClientPool
    /\ ctxDone' = TRUE

\* return <val> from Start.
Return(val) ==
    /\ pc' = "returned"
    /\ retval' = val
    /\ RunDefers

\* A step of Start that stays in Start and registers no defer result.
Goto(next) ==
    /\ pc' = next
    /\ UNCHANGED << retval, ctxDone, metricsServer, handlerConn, connCloses,
                    natsClientPool >>

workerVars == << worker, observer, forwarder, stopCalls, stopped >>
\* What no step of Start or of its goroutines writes: the configuration of
\* the processor and the state of the routers.
configVars == << ISBSvcType, WatermarkDisabled, routeVars >>
resourceVars == << readers, processorManagers, publishWatermark, publisherKind,
                   wmStores >>

\* jsclient.NewClientPool, and the no-op watermark progressors of line 77.
NewClientPool ==
    /\ pc = "newClientPool"
    /\ \/ /\ pc' = "buildIO"
          /\ natsClientPool' = "open"
          /\ publishWatermark' = [p \in ToVertices |-> "open"]
          /\ publisherKind' = "noop"
          /\ UNCHANGED << retval, ctxDone, metricsServer, handlerConn, connCloses >>
       \/ /\ Return("err")
          /\ UNCHANGED << publishWatermark, publisherKind >>
    /\ UNCHANGED << configVars, parentCancelled, readers, processorManagers,
                    wmStores, enableMapUdfStream, index, finalWg, workerVars >>

\* case dfv1.ISBSvcTypeRedis: buildRedisBufferIO gives a reader per partition.
BuildRedisBufferIO ==
    /\ pc = "buildIO"
    /\ ISBSvcType = "redis"
    /\ \/ /\ Goto("streamFlag")
          /\ readers' = NumPartitions
       \/ /\ Return("err")
          /\ UNCHANGED readers
    /\ UNCHANGED << configVars, parentCancelled, processorManagers,
                    publishWatermark, publisherKind, wmStores,
                    enableMapUdfStream, index, finalWg, workerVars >>

\* case dfv1.ISBSvcTypeJetStream with Watermark.Disabled: only the no-op
\* progressors are rebuilt; readers and writers stay nil.
JetStreamWatermarkDisabled ==
    /\ pc = "buildIO"
    /\ ISBSvcType = "jetstream"
    /\ WatermarkDisabled
    /\ Goto("streamFlag")
    /\ publishWatermark' = [p \in ToVertices |-> "open"]
    /\ publisherKind' = "noop"
    /\ UNCHANGED << configVars, parentCancelled, readers, processorManagers,
                    wmStores, enableMapUdfStream, index, finalWg, workerVars >>

\* jetstream.BuildProcessorManagers and fetch.NewEdgeFetcherSet.
BuildProcessorManagers ==
    /\ pc = "buildIO"
    /\ ISBSvcType = "jetstream"
    /\ ~WatermarkDisabled
    /\ \/ /\ Goto("buildStores")
          /\ processorManagers' = [m \in FromVertices |-> "open"]
       \/ /\ Return("err")
          /\ UNCHANGED processorManagers
    /\ UNCHANGED << configVars, parentCancelled, readers, publishWatermark,
                    publisherKind, wmStores, enableMapUdfStream, index,
                    finalWg, workerVars >>

\* jetstream.BuildToVertexWatermarkStores and jetstream.BuildPublishersFromStores.
BuildToVertexWatermarkStores ==
    /\ pc = "buildStores"
    /\ \/ /\ Goto("buildJetStreamIO")
          /\ wmStores' = [s \in ToVertices |-> "open"]
          /\ publishWatermark' = [p \in ToVertices |-> "open"]
          /\ publisherKind' = "jetstream"
       \/ /\ Return("err")
          /\ UNCHANGED << wmStores, publishWatermark, publisherKind >>
    /\ UNCHANGED << configVars, parentCancelled, readers, processorManagers,
                    enableMapUdfStream, index, finalWg, workerVars >>

\* buildJetStreamBufferIO gives a reader per partition.
BuildJetStreamBufferIO ==
    /\ pc = "buildJetStreamIO"
    /\ \/ /\ Goto("streamFlag")
          /\ readers' = NumPartitions
       \/ /\ Return("err")
          /\ UNCHANGED readers
    /\ UNCHANGED << configVars, parentCancelled, processorManagers,
                    publishWatermark, publisherKind, wmStores,
                    enableMapUdfStream, index, finalWg, workerVars >>

\* default: unrecognized isbsvc type.
UnrecognizedISBSvcType ==
    /\ pc = "buildIO"
    /\ ISBSvcType \notin {"redis", "jetstream"}
    /\ Return("err")
    /\ UNCHANGED << configVars, parentCancelled, resourceVars,
                    enableMapUdfStream, index, finalWg, workerVars >>

\* u.VertexInstance.Vertex.MapUdfStreamEnabled(): the flag, or a parse error.
MapUdfStreamEnabled ==
    /\ pc = "streamFlag"
    /\ \/ /\ Goto("newClient")
          /\ enableMapUdfStream' \in BOOLEAN
       \/ /\ Return("err")
          /\ UNCHANGED enableMapUdfStream
    /\ UNCHANGED << configVars, parentCancelled, resourceVars, index, finalWg,
                    workerVars >>

\* mapstreamer.New / mapper.New and the handler built on the client.
NewMapClient ==
    /\ pc = "newClient"
    /\ \/ /\ pc' = "waitUntilReady"
          /\ handlerConn' = "created"
          /\ UNCHANGED << retval, ctxDone, metricsServer, connCloses,
                          natsClientPool >>
       \/ Return("err")
    /\ UNCHANGED << configVars, parentCancelled, resourceVars,
                    enableMapUdfStream, index, finalWg, workerVars >>

\* WaitUntilReady; on success the CloseConn defer is registered.
WaitUntilReady ==
    /\ pc = "waitUntilReady"
    /\ \/ /\ pc' = "forLoop"
          /\ handlerConn' = "ready"
          /\ UNCHANGED << retval, ctxDone, metricsServer, connCloses,
                          natsClientPool >>
       \/ Return("err")
    /\ UNCHANGED << configVars, parentCancelled, resourceVars,
                    enableMapUdfStream, index, finalWg, workerVars >>

\* StopTarget with one `forwarder` variable shared by all iterations: every
\* goroutine stops the forwarder built last.
StopTarget_LastPartition(i) == NumPartitions - 1

\* The forwarder a partition's goroutine calls Stop on: the variable
\* `forwarder` of its own loop iteration.
StopTarget(i) == i

\* One iteration of the range over fromBuffer: the router closure is built
\* (it has no effect on this state), then forward.NewInterStepDataForward
\* with readers[index], finalWg.Add(1) and the go statement.
NewInterStepDataForward ==
    /\ pc = "forLoop"
    /\ index < NumPartitions
    /\ \/ /\ index >= readers                  \* readers[index]: index out of range
          /\ pc' = "panicked"
          /\ RunDefers
          /\ UNCHANGED << retval, index, finalWg, worker, forwarder >>
       \/ /\ index < readers
          /\ Return("err")
          /\ UNCHANGED << index, finalWg, worker, forwarder >>
       \/ /\ index < readers
          /\ Goto(IF index + 1 < NumPartitions THEN "forLoop" ELSE "metrics")
          /\ forwarder' = [forwarder EXCEPT ![index] = "built"]
          /\ finalWg' = finalWg + 1
          /\ worker' = [worker EXCEPT ![index] = "spawned"]
          /\ index' = index + 1
    /\ UNCHANGED << configVars, parentCancelled, resourceVars,
                    enableMapUdfStream, observer, stopCalls, stopped >>

\* metrics.NewMetricsServer(...).Start(ctx); on success its shutdown is deferred.
MetricsServerStart ==
    /\ pc = "metrics"
    /\ \/ /\ pc' = "finalWgWait"
          /\ metricsServer' = "started"
          /\ UNCHANGED << retval, ctxDone, handlerConn, connCloses, natsClientPool >>
       \/ Return("err")
    /\ UNCHANGED << configVars, parentCancelled, resourceVars,
                    enableMapUdfStream, index, finalWg, workerVars >>

\* FinalWgWait without the wait: teardown starts whatever the counter is.
FinalWgWait_NoWait ==
    /\ pc = "finalWgWait"
    /\ Goto("teardown")
    /\ UNCHANGED << configVars, parentCancelled, resourceVars,
                    enableMapUdfStream, index, finalWg, workerVars >>

\* finalWg.Wait() returns when the counter is zero.
FinalWgWait ==
    /\ pc = "finalWgWait"
    /\ finalWg = 0
    /\ Goto("teardown")
    /\ UNCHANGED << configVars, parentCancelled, resourceVars,
                    enableMapUdfStream, index, finalWg, workerVars >>

\* ------------------------------------------------- the partition goroutines
\* stopped := forwarder.Start(), and the nested goroutine receiving on it.
ForwarderStart(i) ==
    /\ worker[i] = "spawned"
    /\ worker' = [worker EXCEPT ![i] = "waitCtx"]
    /\ forwarder' = [forwarder EXCEPT ![i] = "running"]
    /\ observer' = [observer EXCEPT ![i] = "waiting"]
    /\ UNCHANGED << configVars, pc, retval, ctxDone, parentCancelled,
                    natsClientPool, resourceVars, enableMapUdfStream,
                    handlerConn, connCloses, metricsServer, index, finalWg,
                    stopCalls, stopped >>

\* <-ctx.Done() and forwarder.Stop().
CtxDoneStop(i) ==
    /\ worker[i] = "waitCtx"
    /\ ctxDone
    /\ worker' = [worker EXCEPT ![i] = "wgWait"]
    /\ stopCalls' = [stopCalls EXCEPT ![StopTarget(i)] = @ + 1]
    /\ UNCHANGED << configVars, pc, retval, ctxDone, parentCancelled,
                    natsClientPool, resourceVars, enableMapUdfStream,
                    handlerConn, connCloses, metricsServer, index, finalWg,
                    observer, forwarder, stopped >>

\* the nested goroutine: <-stopped, then wg.Done().
ObserverStopped(i) ==
    /\ observer[i] = "waiting"
    /\ stopped[i]
    /\ observer' = [observer EXCEPT ![i] = "done"]
    /\ UNCHANGED << configVars, pc, retval, ctxDone, parentCancelled,
                    natsClientPool, resourceVars, enableMapUdfStream,
                    handlerConn, connCloses, metricsServer, index, finalWg,
                    worker, forwarder, stopCalls, stopped >>

\* WorkerExit without wg.Wait(): the goroutine ends right after Stop.
WorkerExit_NoWgWait(i) ==
    /\ worker[i] = "wgWait"
    /\ worker' = [worker EXCEPT ![i] = "done"]
    /\ finalWg' = finalWg - 1
    /\ UNCHANGED << configVars, pc, retval, ctxDone, parentCancelled,
                    natsClientPool, resourceVars, enableMapUdfStream,
                    handlerConn, connCloses, metricsServer, index, observer,
                    forwarder, stopCalls, stopped >>

\* wg.Wait() returns, the goroutine ends and its deferred finalWg.Done() runs.
WorkerExit(i) ==
    /\ worker[i] = "wgWait"
    /\ observer[i] = "done"
    /\ worker' = [worker EXCEPT ![i] = "done"]
    /\ finalWg' = finalWg - 1
    /\ UNCHANGED << configVars, pc, retval, ctxDone, parentCancelled,
                    natsClientPool, resourceVars, enableMapUdfStream,
                    handlerConn, connCloses, metricsServer, index, observer,
                    forwarder, stopCalls, stopped >>

\* ----------------------------------------------------------- the forwarder
\* The forwarder's run loop ends after a Stop request and fires `stopped`.
ForwarderStopsOnRequest(i) ==
    /\ forwarder[i] = "running"
    /\ stopCalls[i] > 0
    /\ forwarder' = [forwarder EXCEPT ![i] = "stopped"]
    /\ stopped' = [stopped EXCEPT ![i] = TRUE]
    /\ UNCHANGED << configVars, pc, retval, ctxDone, parentCancelled,
                    natsClientPool, resourceVars, enableMapUdfStream,
                    handlerConn, connCloses, metricsServer, index, finalWg,
                    worker, observer, stopCalls >>

\* The forwarder's run loop ends on its own and fires `stopped`.
ForwarderStopsOnItsOwn(i) ==
    /\ forwarder[i] = "running"
    /\ stopCalls[i] = 0
    /\ forwarder' = [forwarder EXCEPT ![i] = "stopped"]
    /\ stopped' = [stopped EXCEPT ![i] = TRUE]
    /\ UNCHANGED << configVars, pc, retval, ctxDone, parentCancelled,
                    natsClientPool, resourceVars, enableMapUdfStream,
                    handlerConn, connCloses, metricsServer, index, finalWg,
                    worker, observer, stopCalls >>

\* ------------------------------------------------------ the parent context
\* The context handed to Start is cancelled by its owner (SIGTERM); the
\* context derived from it in Start is done from then on.
ParentCancel ==
    /\ ~parentCancelled
    /\ parentCancelled' = TRUE
    /\ ctxDone' = TRUE
    /\ UNCHANGED << configVars, pc, retval, natsClientPool, resourceVars,
                    enableMapUdfStream, handlerConn, connCloses, metricsServer,
                    index, finalWg, workerVars >>

\* ---------------------------------------------------------------- teardown
IsClosed(st) == st \in {"closed", "failed"}
ManagersClosed == \A m \in FromVertices : processorManagers[m] # "open"
PublishersClosed == \A p \in ToVertices : publishWatermark[p] # "open"
StoresClosed == \A s \in ToVertices : wmStores[s] # "open"

\* for _, pm := range processorManagers { pm.Close() }
CloseProcessorManager(m) ==
    /\ pc = "teardown"
    /\ processorManagers[m] = "open"
    /\ Goto("teardown")
    /\ processorManagers' = [processorManagers EXCEPT ![m] = "closed"]
    /\ UNCHANGED << configVars, parentCancelled, readers, publishWatermark,
                    publisherKind, wmStores, enableMapUdfStream, index,
                    finalWg, workerVars >>

\* ClosePublisher with the publishers' loop placed before the managers' loop.
ClosePublisher_BeforeManagers(p) ==
    /\ pc = "teardown"
    /\ publishWatermark[p] = "open"
    /\ Goto("teardown")
    /\ \/ publishWatermark' = [publishWatermark EXCEPT ![p] = "closed"]
       \/ /\ publisherKind = "jetstream"
          /\ publishWatermark' = [publishWatermark EXCEPT ![p] = "failed"]
    /\ UNCHANGED << configVars, parentCancelled, readers, processorManagers,
                    publisherKind, wmStores, enableMapUdfStream, index,
                    finalWg, workerVars >>

\* ClosePublisher with the error of Close returned instead of logged.
ClosePublisher_ErrorReturned(p) ==
    /\ pc = "teardown"
    /\ ManagersClosed
    /\ publishWatermark[p] = "open"
    /\ \/ /\ Goto("teardown")
          /\ publishWatermark' = [publishWatermark EXCEPT ![p] = "closed"]
       \/ /\ publisherKind = "jetstream"
          /\ Return("err")
          /\ publishWatermark' = [publishWatermark EXCEPT ![p] = "failed"]
    /\ UNCHANGED << configVars, parentCancelled, readers, processorManagers,
                    publisherKind, wmStores, enableMapUdfStream, index,
                    finalWg, workerVars >>

\* for _, publisher := range publishWatermark: Close, its error only logged.
\* A no-op publisher's Close returns nil.
ClosePublisher(p) ==
    /\ pc = "teardown"
    /\ ManagersClosed
    /\ publishWatermark[p] = "open"
    /\ Goto("teardown")
    /\ \/ publishWatermark' = [publishWatermark EXCEPT ![p] = "closed"]
       \/ /\ publisherKind = "jetstream"
          /\ publishWatermark' = [publishWatermark EXCEPT ![p] = "failed"]
    /\ UNCHANGED << configVars, parentCancelled, readers, processorManagers,
                    publisherKind, wmStores, enableMapUdfStream, index,
                    finalWg, workerVars >>

\* for _, wmStore := range wmStores { _ = wmStore.Close() }
CloseWmStore(s) ==
    /\ pc = "teardown"
    /\ ManagersClosed
    /\ PublishersClosed
    /\ wmStores[s] = "open"
    /\ Goto("teardown")
    /\ \/ wmStores' = [wmStores EXCEPT ![s] = "closed"]
       \/ wmStores' = [wmStores EXCEPT ![s] = "failed"]
    /\ UNCHANGED << configVars, parentCancelled, readers, processorManagers,
                    publishWatermark, publisherKind, enableMapUdfStream, index,
                    finalWg, workerVars >>

\* return nil, after the three loops.
ReturnNil ==
    /\ pc = "teardown"
    /\ ManagersClosed
    /\ PublishersClosed
    /\ StoresClosed
    /\ Return("nil")
    /\ UNCHANGED << configVars, parentCancelled, resourceVars,
                    enableMapUdfStream, index, finalWg, workerVars >>

\* ------------------------------------------------------------------ router
\* bound on the number of records routed in a run of RouteSpec
MaxRecords == 4

\* dfv1.MessageTagDrop
DROP == "DROP"

VertexNames == {"v1", "v2"}
TagValues == {DROP, "a", "b"}
TagSets == SUBSET TagValues
KeySets == { <<>>, <<"k1">>, <<"k2">>, <<"k1", "k2">> }

\* edge.Conditions: nil, with nil Tags, or with Tags of an operator and values.
NilConditions == [isNil |-> TRUE, tagsNil |-> TRUE, Operator |-> "or", Values |-> {}]
NilTags == [isNil |-> FALSE, tagsNil |-> TRUE, Operator |-> "or", Values |-> {}]
TagCondition(op, values) ==
    [isNil |-> FALSE, tagsNil |-> FALSE, Operator |-> op, Values |-> values]

Edge(to, type, count, cond) ==
    [From |-> "v0", To |-> to, ToVertexType |-> type,
     ToVertexPartitionCount |-> count, Conditions |-> cond]

\* The topologies the routers are run against.
Topologies ==
    { << Edge("v1", "map", 3, NilConditions) >>,
      << Edge("v1", "reduce", 4, NilConditions), Edge("v2", "map", 2, NilConditions) >>,
      << Edge("v1", "map", 2, TagCondition("and", {"a", "b"})),
         Edge("v2", "sink", 1, TagCondition("or", {"a", "b"})) >>,
      << Edge("v1", "reduce", 1, NilTags),
         Edge("v2", "reduce", 2, TagCondition("or", {"a"})) >>,
      << Edge("v1", "map", 2, TagCondition("or", {})),
         Edge("v2", "sink", 3, TagCondition("and", {"a"})) >> }

\* int32(x), the conversion of line 305, of a value in 0 .. count - 1 where
\* count is an int32 partition count: the value is kept.
Int32(x) == IF x > 2147483647 THEN x - 2147483647 - 2147483647 - 2 ELSE x

\* GetPartitionedBufferIdx returning the stored index before advancing it.
GetPartitionedBufferIdx_PostIncrement(m, toVertex, toVertexPartitionCount) ==
    LET toVertexPartition == (m[toVertex] + 1) % toVertexPartitionCount
    IN  [idx |-> Int32(m[toVertex]),
         map |-> [m EXCEPT ![toVertex] = toVertexPartition]]

\* GetPartitionedBufferIdx advancing the index without the modulo.
GetPartitionedBufferIdx_NoModulo(m, toVertex, toVertexPartitionCount) ==
    LET toVertexPartition == m[toVertex] + 1
    IN  [idx |-> Int32(toVertexPartition),
         map |-> [m EXCEPT ![toVertex] = toVertexPartition]]

\* The closure returned by GetPartitionedBufferIdx, on the map m it captured:
\* the index it returns and the map it leaves.
GetPartitionedBufferIdx(m, toVertex, toVertexPartitionCount) ==
    LET toVertexPartition == (m[toVertex] + 1) % toVertexPartitionCount
    IN  [idx |-> Int32(toVertexPartition),
         map |-> [m EXCEPT ![toVertex] = toVertexPartition]]

\* sharedutil.StringSliceContains
StringSliceContains(list, str) == str \in list

\* sharedutil.CompareSlice(operator, tags, values)
CompareSlice(operator, a, b) ==
    CASE operator = "and" -> \A v \in b : v \in a
      [] operator = "or" -> \E v \in b : v \in a
      [] OTHER -> FALSE

\* shuffle.Shuffle(keys): a hash of the keys modulo the partition count.
KeyCode(k) == IF k = "k1" THEN 5 ELSE 11
RECURSIVE Hash(_)
Hash(keys) ==
    IF keys = <<>> THEN 7 ELSE (31 * Hash(Tail(keys)) + KeyCode(Head(keys))) % 1009
Shuffle(keys, count) == Int32(Hash(keys) % count)

\* edge.Conditions == nil || edge.Conditions.Tags == nil || len(Values) == 0
NoTagCondition(edge) ==
    \/ edge.Conditions.isNil
    \/ edge.Conditions.tagsNil
    \/ edge.Conditions.Values = {}

\* edge.ToVertexType == VertexTypeReduceUDF && edge.GetToVertexPartitionCount() > 1
NeedShuffle(edge) ==
    edge.ToVertexType = "reduce" /\ edge.ToVertexPartitionCount > 1

\* EdgeMatches without the branch of line 184: every edge is compared.
EdgeMatches_OnlyCompare(edge, tags) ==
    CompareSlice(edge.Conditions.Operator, tags, edge.Conditions.Values)

\* EdgeMatches without the comparison of line 198: every edge takes the record.
EdgeMatches_AlwaysMatch(edge, tags) == TRUE

\* The edge takes the record: the two branches of lines 184 and 198.
EdgeMatches(edge, tags) ==
    \/ NoTagCondition(edge)
    \/ CompareSlice(edge.Conditions.Operator, tags, edge.Conditions.Values)

\* RouteEdges without the shuffle branch: every matched edge takes the
\* round-robin index.
RECURSIVE RouteEdges_NoShuffle(_, _, _, _, _, _)
RouteEdges_NoShuffle(edges, n, keys, tags, result, m) ==
    IF n > Len(edges) THEN [result |-> result, map |-> m]
    ELSE LET edge == edges[n] IN
         IF ~EdgeMatches(edge, tags)
         THEN RouteEdges_NoShuffle(edges, n + 1, keys, tags, result, m)
         ELSE LET next == GetPartitionedBufferIdx(m, edge.To,
                                                  edge.ToVertexPartitionCount) IN
              RouteEdges_NoShuffle(edges, n + 1, keys, tags,
                  Append(result, [ToVertexName |-> edge.To,
                                  ToVertexPartitionIdx |-> next.idx]),
                  next.map)

\* RouteEdges with the counter of every round-robin edge advanced before the
\* edge's condition is looked at.
RECURSIVE RouteEdges_AlwaysAdvance(_, _, _, _, _, _)
RouteEdges_AlwaysAdvance(edges, n, keys, tags, result, m) ==
    IF n > Len(edges) THEN [result |-> result, map |-> m]
    ELSE LET edge == edges[n]
             next == GetPartitionedBufferIdx(m, edge.To, edge.ToVertexPartitionCount)
         IN
         IF NeedShuffle(edge)
         THEN RouteEdges_AlwaysAdvance(edges, n + 1, keys, tags,
                  IF EdgeMatches(edge, tags)
                  THEN Append(result, [ToVertexName |-> edge.To,
                                       ToVertexPartitionIdx |->
                                           Shuffle(keys, edge.ToVertexPartitionCount)])
                  ELSE result,
                  m)
         ELSE RouteEdges_AlwaysAdvance(edges, n + 1, keys, tags,
                  IF EdgeMatches(edge, tags)
                  THEN Append(result, [ToVertexName |-> edge.To,
                                       ToVertexPartitionIdx |-> next.idx])
                  ELSE result,
                  next.map)

\* The loop over ToEdges from edge n on, with the result and the counter map
\* accumulated so far.
RECURSIVE RouteEdges(_, _, _, _, _, _)
RouteEdges(edges, n, keys, tags, result, m) ==
    IF n > Len(edges) THEN [result |-> result, map |-> m]
    ELSE LET edge == edges[n] IN
         IF ~EdgeMatches(edge, tags)
         THEN RouteEdges(edges, n + 1, keys, tags, result, m)
         ELSE IF NeedShuffle(edge)
         THEN RouteEdges(edges, n + 1, keys, tags,
                  Append(result, [ToVertexName |-> edge.To,
                                  ToVertexPartitionIdx |->
                                      Shuffle(keys, edge.ToVertexPartitionCount)]),
                  m)
         ELSE LET next == GetPartitionedBufferIdx(m, edge.To,
                                                  edge.ToVertexPartitionCount) IN
              RouteEdges(edges, n + 1, keys, tags,
                  Append(result, [ToVertexName |-> edge.To,
                                  ToVertexPartitionIdx |-> next.idx]),
                  next.map)

\* conditionalForwarder without the check of the drop tag.
conditionalForwarder_NoDropCheck(edges, keys, tags, m) ==
    RouteEdges(edges, 1, keys, tags, <<>>, m)

\* The function handed to forward.GoWhere: the assignments of one record and
\* the counter map it leaves.
conditionalForwarder(edges, keys, tags, m) ==
    IF StringSliceContains(tags, DROP)
    THEN [result |-> <<>>, map |-> m]
    ELSE RouteEdges(edges, 1, keys, tags, <<>>, m)

\* The to-vertices of the round-robin assignments a record gets.
RoundRobinTargets(edges, tags) ==
    IF StringSliceContains(tags, DROP) THEN {}
    ELSE { edges[n].To : n \in { k \in 1 .. Len(edges) :
               EdgeMatches(edges[k], tags) /\ ~NeedShuffle(edges[k]) } }

RouteIdle ==
    /\ messagePerPartitionMap = [i \in Partitions |-> [v \in VertexNames |-> 0]]
    /\ calls = [i \in Partitions |-> [v \in VertexNames |-> 0]]
    /\ routed = 0
    /\ lastCall = [partition |-> -1, keys |-> <<>>, tags |-> {}, result |-> <<>>]
    /\ remembered = [partition |-> -1, keys |-> <<>>, result |-> <<>>]

\* The to-vertices of the shuffled assignments a record gets.
ShuffleTargets(edges, tags) ==
    IF StringSliceContains(tags, DROP) THEN {}
    ELSE { edges[n].To : n \in { k \in 1 .. Len(edges) :
               EdgeMatches(edges[k], tags) /\ NeedShuffle(edges[k]) } }

\* Route with one counter closure shared by the routers of all partitions
\* (GetPartitionedBufferIdx called once, outside the loop over fromBuffer).
Route_SharedCounter(i, keys, tags) ==
    /\ routed < MaxRecords
    /\ LET out == conditionalForwarder(ToEdges, keys, tags, messagePerPartitionMap[0])
       IN  /\ messagePerPartitionMap' = [messagePerPartitionMap EXCEPT ![0] = out.map]
           /\ lastCall' = [partition |-> i, keys |-> keys, tags |-> tags,
                           result |-> out.result]
    /\ calls' = [calls EXCEPT ![i] =
                    [v \in VertexNames |->
                        IF v \in RoundRobinTargets(ToEdges, tags) THEN @[v] + 1 ELSE @[v]]]
    /\ routed' = routed + 1
    /\ UNCHANGED << ToEdges, remembered, lifecycleVars >>

\* The forwarder of input partition i routes one record.
Route(i, keys, tags) ==
    /\ routed < MaxRecords
    /\ LET out == conditionalForwarder(ToEdges, keys, tags, messagePerPartitionMap[i])
       IN  /\ messagePerPartitionMap' = [messagePerPartitionMap EXCEPT ![i] = out.map]
           /\ lastCall' = [partition |-> i, keys |-> keys, tags |-> tags,
                           result |-> out.result]
    /\ calls' = [calls EXCEPT ![i] =
                    [v \in VertexNames |->
                        IF v \in RoundRobinTargets(ToEdges, tags) THEN @[v] + 1 ELSE @[v]]]
    /\ routed' = routed + 1
    /\ UNCHANGED << ToEdges, remembered, lifecycleVars >>

RouteInit ==
    /\ ISBSvcType = "jetstream"
    /\ WatermarkDisabled = FALSE
    /\ StartInit
    /\ ToEdges \in Topologies
    /\ RouteIdle

RouteNext == \E i \in Partitions, keys \in KeySets, tags \in TagSets : Route(i, keys, tags)

RouteSpec == RouteInit /\ [][RouteNext]_vars

\* The routers run against the topologies that have a shuffled edge, one
\* shuffled call of the run being kept in `remembered` to compare later calls
\* with.
RouteAndRemember(i, keys, tags) ==
    /\ routed < MaxRecords
    /\ remembered.partition = -1
    /\ ShuffleTargets(ToEdges, tags) # {}
    /\ LET out == conditionalForwarder(ToEdges, keys, tags, messagePerPartitionMap[i])
       IN  /\ messagePerPartitionMap' = [messagePerPartitionMap EXCEPT ![i] = out.map]
           /\ lastCall' = [partition |-> i, keys |-> keys, tags |-> tags,
                           result |-> out.result]
           /\ remembered' = [partition |-> i, keys |-> keys, result |-> out.result]
    /\ calls' = [calls EXCEPT ![i] =
                    [v \in VertexNames |->
                        IF v \in RoundRobinTargets(ToEdges, tags) THEN @[v] + 1 ELSE @[v]]]
    /\ routed' = routed + 1
    /\ UNCHANGED << ToEdges, lifecycleVars >>

ShuffleInit ==
    /\ RouteInit
    /\ \E n \in 1 .. Len(ToEdges) : NeedShuffle(ToEdges[n])

ShuffleNext ==
    \E i \in Partitions, keys \in KeySets, tags \in TagSets :
        \/ Route(i, keys, tags)
        \/ RouteAndRemember(i, keys, tags)

ShuffleSpec == ShuffleInit /\ [][ShuffleNext]_vars

\* ------------------------------------------------------- the specification
Init ==
    /\ ISBSvcType \in ISBSvcTypes
    /\ WatermarkDisabled \in BOOLEAN
    /\ StartInit
    /\ ToEdges = << Edge("v1", "map", 3, NilConditions) >>
    /\ RouteIdle

StartNext ==
    \/ NewClientPool
    \/ BuildRedisBufferIO
    \/ JetStreamWatermarkDisabled
    \/ BuildProcessorManagers
    \/ BuildToVertexWatermarkStores
    \/ BuildJetStreamBufferIO
    \/ UnrecognizedISBSvcType
    \/ MapUdfStreamEnabled
    \/ NewMapClient
    \/ WaitUntilReady
    \/ NewInterStepDataForward
    \/ MetricsServerStart
    \/ FinalWgWait
    \/ \E m \in FromVertices : CloseProcessorManager(m)
    \/ \E p \in ToVertices : ClosePublisher(p)
    \/ \E s \in ToVertices : CloseWmStore(s)
    \/ ReturnNil

WorkerNext(i) ==
    \/ ForwarderStart(i)
    \/ CtxDoneStop(i)
    \/ WorkerExit(i)

Next ==
    \/ StartNext
    \/ \E i \in Partitions : WorkerNext(i)
    \/ \E i \in Partitions : ObserverStopped(i)
    \/ \E i \in Partitions : ForwarderStopsOnRequest(i)
    \/ \E i \in Partitions : ForwarderStopsOnItsOwn(i)
    \/ ParentCancel

Spec == Init /\ [][Next]_vars

\* Every goroutine that can take a step eventually takes one, and a forwarder
\* that was asked to stop eventually stops.  The parent context need never be
\* cancelled and a forwarder need never stop on its own.
FairSpec ==
    /\ Spec
    /\ WF_vars(StartNext)
    /\ \A i \in Partitions : WF_vars(WorkerNext(i))
    /\ \A i \in Partitions : WF_vars(ObserverStopped(i))
    /\ \A i \in Partitions : WF_vars(ForwarderStopsOnRequest(i))

\* ------------------------------------------------------------------ claims
Started(i) == worker[i] # "none"
Running(i) == worker[i] \in {"spawned", "waitCtx", "wgWait"}
SomeManagerClosed == \E m \in FromVertices : processorManagers[m] = "closed"
SomePublisherClosed == \E p \in ToVertices : IsClosed(publishWatermark[p])
SomeStoreClosed == \E s \in ToVertices : IsClosed(wmStores[s])
AllPublishersClosed == \A p \in ToVertices : IsClosed(publishWatermark[p])
AllStoresClosed == \A s \in ToVertices : IsClosed(wmStores[s])

\* C1: teardown runs in a fixed order: when any watermark publisher has been
\* closed every processor manager is closed already, and when any watermark
\* store has been closed every publisher (and every manager) is closed already.
C1_TeardownOrder ==
    /\ SomePublisherClosed => ManagersClosed
    /\ SomeStoreClosed => (AllPublishersClosed /\ ManagersClosed)

\* C1 happens: managers were built and closed, every publisher is closed, and
\* the stores' loop is under way with one store closed and one still open.
C1_Witness ==
    /\ \A m \in FromVertices : processorManagers[m] = "closed"
    /\ AllPublishersClosed
    /\ SomeStoreClosed
    /\ \E s \in ToVertices : wmStores[s] = "open"

\* C2: join-then-close: when any manager, publisher or store has been closed,
\* every partition's goroutine has exited and every partition's forwarder has
\* received its Stop request.
C2_JoinThenClose ==
    (SomeManagerClosed \/ SomePublisherClosed \/ SomeStoreClosed)
        => \A i \in Partitions : worker[i] = "done" /\ stopCalls[i] >= 1

\* C2 happens: the first close step has run (a manager is closed, another is
\* still open) after the goroutines of all partitions ran.
C2_Witness ==
    /\ pc = "teardown"
    /\ SomeManagerClosed
    /\ \E m \in FromVertices : processorManagers[m] = "open"
    /\ \A i \in Partitions : forwarder[i] = "stopped"

\* C3: whenever Start has returned after starting at least one partition
\* goroutine, every started goroutine has exited and every close step has run.
C3_ReturnAfterJoinAndClose ==
    (pc = "returned" /\ \E i \in Partitions : Started(i))
        => /\ \A i \in Partitions : ~Running(i)
           /\ ManagersClosed
           /\ PublishersClosed
           /\ StoresClosed

\* C4: whenever Start has returned an error, no partition goroutine was started.
C4_ErrorBeforeAnyWorker ==
    retval = "err" => \A i \in Partitions : ~Started(i)

\* C5: natural completion: from a state where the forwarder of every partition
\* has fired `stopped` without a Stop request and the parent context is not
\* cancelled, Start eventually returns unless the parent is cancelled after all.
AllStoppedOnTheirOwn ==
    \A i \in Partitions : forwarder[i] = "stopped" /\ stopCalls[i] = 0
C5_NaturalCompletion ==
    (AllStoppedOnTheirOwn /\ ~parentCancelled) ~> (pc = "returned" \/ parentCancelled)

\* C6: termination after cancellation: from a state where the parent context
\* is cancelled and a partition goroutine is running, Start eventually returns
\* nil with every goroutine exited and every close step run.
C6_TerminationAfterCancel ==
    (parentCancelled /\ \E i \in Partitions : Running(i))
        ~> /\ pc = "returned"
           /\ retval = "nil"
           /\ \A i \in Partitions : worker[i] = "done"
           /\ ManagersClosed /\ PublishersClosed /\ StoresClosed

\* C7: provisioning leaves one reader per input partition: when the loop that
\* builds the forwarders is reached, readers[i] exists for every partition i.
C7_ReaderPerPartition ==
    pc = "forLoop" => readers = NumPartitions

\* C8: no shared resource is leaked: whenever Start has returned, every
\* processor manager and every watermark store that was created is closed.
C8_NoLeakOnReturn ==
    pc = "returned" => (ManagersClosed /\ StoresClosed)

\* C9: teardown failures are not fatal: when Start has returned and the Close
\* of a publisher or of a store failed, every publisher and every store has
\* been closed all the same and Start returned nil.
C9_TeardownFailuresNonFatal ==
    (pc = "returned" /\ \E v \in ToVertices :
          publishWatermark[v] = "failed" \/ wmStores[v] = "failed")
        => /\ retval = "nil"
           /\ AllPublishersClosed
           /\ AllStoresClosed

\* C9 happens: Start has returned, the Close of a publisher failed, the Close
\* of a store failed, and another publisher was closed after the failure.
C9_Witness ==
    /\ pc = "returned"
    /\ \E p \in ToVertices : publishWatermark[p] = "failed"
    /\ \E p \in ToVertices : publishWatermark[p] = "closed"
    /\ \E s \in ToVertices : wmStores[s] = "failed"

\* The partition count of the edge to vertex v in the topology.
PartitionCountOf(v) ==
    LET n == CHOOSE k \in 1 .. Len(ToEdges) : ToEdges[k].To = v
    IN  ToEdges[n].ToVertexPartitionCount
RoundRobinVertices ==
    { ToEdges[n].To : n \in { k \in 1 .. Len(ToEdges) : ~NeedShuffle(ToEdges[k]) } }

\* C10: round-robin sequence: after the k-th call of a partition's counter for
\* a to-vertex with partition count P the counter holds k mod P, and the index
\* the k-th call returned (the one in the last routing result) is k mod P.
C10_RoundRobinSequence ==
    /\ \A i \in Partitions : \A v \in RoundRobinVertices :
          messagePerPartitionMap[i][v] = calls[i][v] % PartitionCountOf(v)
    /\ \A n \in 1 .. Len(lastCall.result) :
          LET a == lastCall.result[n] IN
          a.ToVertexName \in RoundRobinVertices =>
              a.ToVertexPartitionIdx =
                  calls[lastCall.partition][a.ToVertexName]
                      % PartitionCountOf(a.ToVertexName)

\* C10 happens: the counter of a to-vertex with 3 partitions has been called
\* 4 times by one partition (1, 2, 0 and then 1 again: the period is 3).
C10_Witness ==
    /\ lastCall.partition \in Partitions
    /\ \E n \in 1 .. Len(lastCall.result) :
          LET a == lastCall.result[n] IN
          /\ a.ToVertexName \in RoundRobinVertices
          /\ PartitionCountOf(a.ToVertexName) = 3
          /\ calls[lastCall.partition][a.ToVertexName] = 4
          /\ a.ToVertexPartitionIdx = 1

\* ---------------------------------------------------- claims on the router
LastCallMade == lastCall.partition \in Partitions
TopologyVertices == { ToEdges[n].To : n \in 1 .. Len(ToEdges) }
AssignmentsTo(result, v) == { k \in 1 .. Len(result) : result[k].ToVertexName = v }
\* The edge has no tag condition: nil conditions, nil tags or no values.
HasNoCondition(edge) ==
    edge.Conditions.isNil \/ edge.Conditions.tagsNil \/ edge.Conditions.Values = {}
\* The tags satisfy the operator of the edge against its values.
Satisfies(edge, tags) ==
    IF edge.Conditions.Operator = "and"
    THEN edge.Conditions.Values \subseteq tags
    ELSE edge.Conditions.Values \cap tags # {}
\* The edge to v goes to a reduce vertex with more than one partition.
IsKeyedVertex(v) ==
    \E n \in 1 .. Len(ToEdges) :
        /\ ToEdges[n].To = v
        /\ ToEdges[n].ToVertexType = "reduce"
        /\ ToEdges[n].ToVertexPartitionCount > 1

\* C11: a record whose tags contain the drop tag gets no assignment, whatever
\* its keys, its other tags and the edges.
C11_DropYieldsEmpty ==
    (LastCallMade /\ DROP \in lastCall.tags) => lastCall.result = <<>>

\* C11 happens: a record with keys and the tags DROP and "a" was routed in a
\* topology with an edge without condition and an edge whose condition "a"
\* satisfies.
C11_Witness ==
    /\ LastCallMade
    /\ lastCall.tags = {DROP, "a"}
    /\ lastCall.keys # <<>>
    /\ \E n \in 1 .. Len(ToEdges) : HasNoCondition(ToEdges[n])
    /\ \E n \in 1 .. Len(ToEdges) :
          ~HasNoCondition(ToEdges[n]) /\ Satisfies(ToEdges[n], lastCall.tags)
    /\ lastCall.result = <<>>

\* C12: for a record without the drop tag every edge without tag condition
\* gives exactly one assignment, and the assignments of two such edges come
\* in the order of the edges.
C12_UnconditionalEdgesMatch ==
    (LastCallMade /\ DROP \notin lastCall.tags) =>
        /\ \A n \in 1 .. Len(ToEdges) :
              HasNoCondition(ToEdges[n]) =>
                  Cardinality(AssignmentsTo(lastCall.result, ToEdges[n].To)) = 1
        /\ \A n1, n2 \in 1 .. Len(ToEdges) :
              (n1 < n2 /\ HasNoCondition(ToEdges[n1]) /\ HasNoCondition(ToEdges[n2])) =>
                  \A k1 \in AssignmentsTo(lastCall.result, ToEdges[n1].To) :
                  \A k2 \in AssignmentsTo(lastCall.result, ToEdges[n2].To) : k1 < k2

\* C12 happens: two edges without condition and a record with tags []: two
\* assignments, the first for the first edge and the second for the second.
C12_Witness ==
    /\ LastCallMade
    /\ lastCall.tags = {}
    /\ Len(ToEdges) = 2
    /\ HasNoCondition(ToEdges[1]) /\ HasNoCondition(ToEdges[2])
    /\ Len(lastCall.result) = 2
    /\ lastCall.result[1].ToVertexName = ToEdges[1].To
    /\ lastCall.result[2].ToVertexName = ToEdges[2].To

\* C13: for a record without the drop tag an edge with a tag condition gives
\* an assignment exactly when the tags satisfy its operator (and: all values,
\* or: one value); a record that no edge takes gets the empty result.
C13_ConditionalEdgesMatchIff ==
    (LastCallMade /\ DROP \notin lastCall.tags) =>
        /\ \A n \in 1 .. Len(ToEdges) :
              ~HasNoCondition(ToEdges[n]) =>
                  ( AssignmentsTo(lastCall.result, ToEdges[n].To) # {}
                      <=> Satisfies(ToEdges[n], lastCall.tags) )
        /\ (\A n \in 1 .. Len(ToEdges) :
               ~HasNoCondition(ToEdges[n]) /\ ~Satisfies(ToEdges[n], lastCall.tags))
              => lastCall.result = <<>>

\* C13 happens: tags ["a"] against an and-edge over {a, b}, which fails, and
\* an or-edge over {a, b}, which succeeds: one assignment, for the or-edge.
C13_Witness ==
    /\ LastCallMade
    /\ lastCall.tags = {"a"}
    /\ Len(ToEdges) = 2
    /\ ToEdges[1].Conditions = TagCondition("and", {"a", "b"})
    /\ ToEdges[2].Conditions = TagCondition("or", {"a", "b"})
    /\ Len(lastCall.result) = 1
    /\ lastCall.result[1].ToVertexName = ToEdges[2].To

\* C14: a shuffled edge gives the same partition to records with the same
\* keys: the partition the remembered call got on the edge to a reduce vertex
\* with several partitions is the one the last call got on it, when the keys
\* are the same, whatever the partitions and counters of the two calls.
C14_ShuffleByKeysOnly ==
    (remembered.partition \in Partitions /\ LastCallMade
         /\ remembered.keys = lastCall.keys) =>
        \A k1 \in 1 .. Len(remembered.result) : \A k2 \in 1 .. Len(lastCall.result) :
            LET a == remembered.result[k1]
                b == lastCall.result[k2]
            IN  (a.ToVertexName = b.ToVertexName /\ IsKeyedVertex(a.ToVertexName))
                    => a.ToVertexPartitionIdx = b.ToVertexPartitionIdx

\* C14 happens: two records with the same keys were shuffled over the same
\* edge by the routers of two partitions whose round-robin counters differ,
\* the second after at least two other records.
C14_Witness ==
    /\ remembered.partition \in Partitions
    /\ LastCallMade
    /\ remembered.partition # lastCall.partition
    /\ remembered.keys = lastCall.keys
    /\ lastCall.keys # <<>>
    /\ routed >= 3
    /\ messagePerPartitionMap[remembered.partition]
           # messagePerPartitionMap[lastCall.partition]
    /\ \E v \in VertexNames :
          /\ IsKeyedVertex(v)
          /\ AssignmentsTo(remembered.result, v) # {}
          /\ AssignmentsTo(lastCall.result, v) # {}

\* The counter after k calls of a closure nobody else calls.
RECURSIVE SoloCounter(_, _)
SoloCounter(k, count) ==
    IF k = 0 THEN 0 ELSE (SoloCounter(k - 1, count) + 1) % count

\* C17: the counters are per partition: the counter a partition's router holds
\* for a to-vertex, and the index its last call returned, are those of a
\* router that made this partition's calls alone, whatever the other
\* partitions' routers did in between.
C17_CountersPartitionLocal ==
    /\ \A i \in Partitions : \A v \in RoundRobinVertices :
          messagePerPartitionMap[i][v] = SoloCounter(calls[i][v], PartitionCountOf(v))
    /\ LastCallMade =>
          \A k \in 1 .. Len(lastCall.result) :
              LET v == lastCall.result[k].ToVertexName IN
              v \in RoundRobinVertices =>
                  lastCall.result[k].ToVertexPartitionIdx =
                      SoloCounter(calls[lastCall.partition][v], PartitionCountOf(v))

\* C17 happens: the routers of partitions 0 and 1 both routed to the same
\* round-robin to-vertex, a different number of times, and hold different
\* counters for it.
C17_Witness ==
    \E v \in RoundRobinVertices :
        /\ calls[0][v] >= 1
        /\ calls[1][v] >= 1
        /\ calls[0][v] # calls[1][v]
        /\ messagePerPartitionMap[0][v] # messagePerPartitionMap[1][v]

\* C18: every round-robin index the last call returned and every stored
\* counter is in 0 .. P - 1, P the partition count of the to-vertex.
C18_IndexInRange ==
    /\ \A i \in Partitions : \A v \in VertexNames :
          IF v \in TopologyVertices
          THEN messagePerPartitionMap[i][v] \in 0 .. (PartitionCountOf(v) - 1)
          ELSE messagePerPartitionMap[i][v] = 0
    /\ \A k \in 1 .. Len(lastCall.result) :
          LET a == lastCall.result[k] IN
          ~IsKeyedVertex(a.ToVertexName) =>
              a.ToVertexPartitionIdx \in 0 .. (PartitionCountOf(a.ToVertexName) - 1)

\* C18 happens: a counter of a to-vertex with P >= 2 partitions was called P
\* times and wrapped to 0, the index the last call returned.
C18_Witness ==
    /\ LastCallMade
    /\ \E v \in RoundRobinVertices :
          /\ PartitionCountOf(v) >= 2
          /\ calls[lastCall.partition][v] = PartitionCountOf(v)
          /\ messagePerPartitionMap[lastCall.partition][v] = 0
          /\ \E k \in AssignmentsTo(lastCall.result, v) :
                lastCall.result[k].ToVertexPartitionIdx = 0

\* C19: frame of a routing call: the counter of a partition for a to-vertex
\* changes only in a call of that partition's router whose record is not
\* dropped and gets an assignment to that to-vertex over an edge that is
\* not shuffled.
C19_CounterFrame ==
    [][ \A i \in Partitions : \A v \in VertexNames :
            messagePerPartitionMap'[i][v] # messagePerPartitionMap[i][v] =>
                /\ lastCall'.partition = i
                /\ DROP \notin lastCall'.tags
                /\ AssignmentsTo(lastCall'.result, v) # {}
                /\ ~IsKeyedVertex(v) ]_vars

\* C19 happens: the first record routed matched the round-robin edge to one
\* to-vertex, whose counter advanced, and failed the condition of the edge to
\* another, whose counter is still 0.
C19_Witness ==
    /\ LastCallMade
    /\ routed = 1
    /\ DROP \notin lastCall.tags
    /\ \E v1, v2 \in TopologyVertices :
          /\ v1 # v2
          /\ AssignmentsTo(lastCall.result, v1) # {}
          /\ AssignmentsTo(lastCall.result, v2) = {}
          /\ ~IsKeyedVertex(v2)
          /\ messagePerPartitionMap[lastCall.partition][v1] = 1
          /\ messagePerPartitionMap[lastCall.partition][v2] = 0

\* ------------------------------------------- further claims on the lifecycle
\* C15: the handler is ready before any partition goroutine is started, its
\* connection is released exactly once by the time Start has returned, and it
\* is never released while a partition goroutine is still running.
C15_HandlerReadyThenReleased ==
    /\ (\E i \in Partitions : Started(i)) => handlerConn \in {"ready", "closed"}
    /\ (pc = "returned" /\ handlerConn \in {"ready", "closed"})
          => (handlerConn = "closed" /\ connCloses = 1)
    /\ handlerConn = "closed" => \A i \in Partitions : ~Running(i)

\* C16: a partition goroutine that has exited has seen its forwarder stop:
\* the forwarder fired `stopped` and the nested goroutine received it; and
\* finalWg counts exactly the goroutines that have not exited.
C16_ExitAfterStopped ==
    /\ \A i \in Partitions :
          worker[i] = "done" =>
              (stopped[i] /\ forwarder[i] = "stopped" /\ observer[i] = "done")
    /\ finalWg = Cardinality({ i \in Partitions : Running(i) })

\* C16 happens: one partition's goroutine has exited after its forwarder
\* stopped while another one, already asked to stop, still waits for its own.
C16_Witness ==
    /\ \E i \in Partitions : worker[i] = "done"
    /\ \E j \in Partitions : worker[j] = "wgWait" /\ ~stopped[j]
    /\ finalWg >= 1

\* C20: Stop is called on a forwarder at most once, only when the context of
\* the run is done, and by the goroutine of the forwarder's own partition.
C20_StopOnceAfterCancel ==
    \A i \in Partitions :
        /\ stopCalls[i] <= 1
        /\ stopCalls[i] = 1 => (ctxDone /\ worker[i] \in {"wgWait", "done"})

\* C20 happens: the parent context was cancelled while Start waited on
\* finalWg and every partition's forwarder has received its one Stop.
C20_Witness ==
    /\ parentCancelled
    /\ pc = "finalWgWait"
    /\ \A i \in Partitions : stopCalls[i] = 1

====
